---- MODULE Spec2Model ----
(***************************************************************************)
(* Model of npf/jax/functional.py: axis resolution for masks, the mask     *)
(* broadcaster, the masked operations, flatten/unflatten and logmeanexp.   *)
(* Every function of the file is pure, so the state is the arguments of a  *)
(* call sequence and the outcome of each call made so far.                 *)
(***************************************************************************)
EXTENDS Integers, Sequences, FiniteSets, TLC

VARIABLES
    pc,             \* the next function to call, "done" after the last one
    a_ndim,         \* process_mask_axis: a.ndim
    mask_ndim,      \* process_mask_axis: mask.ndim
    a,              \* array argument: [shape, data] (row-major data), or None
    mask,           \* boolean array argument, or None
    mask_axis,      \* OptAxis argument: None, PyInt(i) or PyTuple(s)
    non_mask_axis,  \* OptAxis argument
    fill_value,     \* masked_fill: fill_value
    start,          \* flatten: start (also unflatten's axis in the round trip)
    stop,           \* flatten: stop
    axis,           \* logmeanexp: axis
    ret             \* function name -> NotCalled, Raise(..) or Return(..)

vars == <<pc, a_ndim, mask_ndim, a, mask, mask_axis, non_mask_axis,
          fill_value, start, stop, axis, ret>>

----------------------------------------------------------------------------
(* Bounds of the explored inputs.                                          *)

MaxNdim == 2
MaxAxes == 2
MaxBothAxes == 1
MaxDim == 2
MaxWideNdim == 9
MaxFlatNdim == 3

----------------------------------------------------------------------------
(* Python values and call outcomes.                                        *)

None == [none |-> TRUE]
PyInt(i) == [int |-> i]
PyTuple(s) == [seq |-> s]

IsInt(v) == DOMAIN v = {"int"}
IsTuple(v) == DOMAIN v = {"seq"}

NotCalled == [pending |-> TRUE]
Raise(e, m) == [exc |-> e, msg |-> m]
Return(v) == [val |-> v]

IsRaise(r) == DOMAIN r = {"exc", "msg"}
IsReturn(r) == DOMAIN r = {"val"}
Called(r) == r # NotCalled

Min(S) == CHOOSE x \in S : \A y \in S : x <= y

SeqsUpTo(S, n) == UNION {[1..k -> S] : k \in 0..n}

RECURSIVE prod(_)
prod(s) == IF s = <<>> THEN 1 ELSE Head(s) * prod(Tail(s))

\* list(range(n))
RECURSIVE range(_)
range(n) == IF n <= 0 THEN <<>> ELSE Append(range(n - 1), n - 1)

----------------------------------------------------------------------------
(* CPython's set of small integers (Objects/setobject.c): an open-addressed*)
(* table whose slot order is the iteration order, so tuple(set(..)) is the *)
(* keys in slot order.  A slot is <<>> (unused) or <<key>>.  Keys k have   *)
(* |k| < 32, which every input explored here satisfies.                    *)

PySet_MINSIZE == 8
LINEAR_PROBES == 9
PERTURB_SHIFT == 32

pyhash(k) == IF k = -1 THEN -2 ELSE k

RECURSIVE shifted(_, _)
shifted(h, n) == IF n = 0 THEN h ELSE shifted(h, n - 1) \div PERTURB_SHIFT

\* The low bits (mod M) of the unsigned 64-bit perturb after n shifts.
perturb(h, n, M) ==
    IF h >= 0 \/ n <= 11 THEN shifted(h, n) % M
    ELSE IF n = 12 THEN (16 + shifted(h, n)) % M
    ELSE 0

RECURSIVE set_probe(_, _, _, _, _, _)
set_probe(slots, smask, key, clean, i, n) ==
    LET lim == IF i + LINEAR_PROBES <= smask THEN LINEAR_PROBES ELSE 0
        hit == {j \in i..(i + lim) :
                   \/ slots[j + 1] = <<>>
                   \/ (~clean /\ slots[j + 1] = <<key>>)}
    IN  IF hit # {} THEN Min(hit)
        ELSE set_probe(slots, smask, key, clean,
                       (i * 5 + 1 + perturb(pyhash(key), n + 1, smask + 1)) % (smask + 1),
                       n + 1)

set_lookkey(slots, smask, key, clean) ==
    set_probe(slots, smask, key, clean, pyhash(key) % (smask + 1), 0)

\* The keys in slot order: the concatenation of the slots.
RECURSIVE concat(_)
concat(sl) == IF sl = <<>> THEN <<>> ELSE Head(sl) \o concat(Tail(sl))

set_keys(s) == concat(s.slots)

RECURSIVE table_size(_, _)
table_size(newsize, minused) ==
    IF newsize <= minused THEN table_size(newsize * 2, minused) ELSE newsize

RECURSIVE set_insert_clean(_, _, _)
set_insert_clean(slots, smask, keys) ==
    IF keys = <<>> THEN slots
    ELSE LET j == set_lookkey(slots, smask, Head(keys), TRUE)
         IN  set_insert_clean([slots EXCEPT ![j + 1] = <<Head(keys)>>], smask, Tail(keys))

RECURSIVE unused_slots(_)
unused_slots(n) == IF n = 0 THEN <<>> ELSE Append(unused_slots(n - 1), <<>>)

set_table_resize(s, minused) ==
    LET newsize == table_size(PySet_MINSIZE, minused)
    IN  [slots |-> set_insert_clean(unused_slots(newsize), newsize - 1, set_keys(s)),
         smask |-> newsize - 1,
         fill  |-> Len(set_keys(s))]

set_new == [slots |-> unused_slots(PySet_MINSIZE),
            smask |-> PySet_MINSIZE - 1,
            fill  |-> 0]

\* after an insertion: the table grows once it is 3/5 full
set_grow(t) ==
    IF t.fill * 5 < t.smask * 3 THEN t ELSE set_table_resize(t, t.fill * 4)

\* the key goes to slot j unless that slot already holds it
set_add_entry(s, key, j) ==
    IF s.slots[j + 1] # <<>> THEN s
    ELSE set_grow([s EXCEPT !.slots[j + 1] = <<key>>, !.fill = s.fill + 1])

set_add_key(s, key) ==
    set_add_entry(s, key, set_lookkey(s.slots, s.smask, key, FALSE))

RECURSIVE set_update(_, _)
set_update(s, l) ==
    IF l = <<>> THEN s ELSE set_update(set_add_key(s, Head(l)), Tail(l))

\* set(iterable)
set(l) == set_update(set_new, l)

set_contains(s, key) == \E j \in 1..Len(s.slots) : s.slots[j] = <<key>>

set_len(s) == Len(set_keys(s))

\* set_merge into an empty set so: a table of the same size is copied slot
\* by slot, any other is refilled in other's slot order
set_merge(so, other) ==
    IF so.smask = other.smask
    THEN [other EXCEPT !.fill = set_len(other)]
    ELSE [so EXCEPT !.slots = set_insert_clean(so.slots, so.smask, set_keys(other)),
                    !.fill = set_len(other)]

\* set_copy -> set_merge into an empty set, presized for other
set_copy(other) ==
    IF set_len(other) = 0 THEN set_new
    ELSE set_merge(IF set_len(other) * 5 >= set_new.smask * 3
                   THEN set_table_resize(set_new, set_len(other) * 2)
                   ELSE set_new,
                   other)

\* the keys of l that are not in other, in l's order
RECURSIVE set_without(_, _)
set_without(l, other) ==
    IF l = <<>> THEN <<>>
    ELSE (IF set_contains(other, Head(l)) THEN <<>> ELSE <<Head(l)>>)
         \o set_without(Tail(l), other)

\* the slots with every key of other removed
RECURSIVE set_discard_all(_, _)
set_discard_all(sl, other) ==
    IF sl = <<>> THEN <<>>
    ELSE <<IF Head(sl) # <<>> /\ set_contains(other, Head(sl)[1]) THEN <<>> ELSE Head(sl)>>
         \o set_discard_all(Tail(sl), other)

set_difference_update(r, other) ==
    [r EXCEPT !.slots = set_discard_all(r.slots, other)]

\* so - other
set_difference(so, other) ==
    IF (set_len(so) \div 4) > set_len(other)
    THEN set_difference_update(set_copy(so), other)
    ELSE set_update(set_new, set_without(set_keys(so), other))

\* tuple(s) of a set: the keys in slot order
tuple(s) == set_keys(s)

----------------------------------------------------------------------------
(* process_mask_axis                                                       *)

ValueError == "ValueError"
MsgSameDim == "Array and mask must have same dimension if mask_axis and non_mask_axis are not specified"
MsgMaskAxisLen == "length of mask_axis must match mask.ndim"
MsgNonMaskAxisLen == "length of non_mask_axis must match a.ndim - mask.ndim"
MsgOnlyOne == "Only one of mask_axis and non_mask_axis can be specified"

\* [x] if isinstance(x, int) else x
as_list(x) == IF IsInt(x) THEN <<x.int>> ELSE x.seq

\* [d if d >= 0 else d + a_ndim for d in l]
RECURSIVE normalize(_, _)
normalize(l, nd) ==
    IF l = <<>> THEN <<>>
    ELSE <<IF Head(l) >= 0 THEN Head(l) ELSE Head(l) + nd>> \o normalize(Tail(l), nd)

NeitherGiven(m_ax, nm_ax) == m_ax = None /\ nm_ax = None

OnlyMaskAxisMissingTest(m_ax, nm_ax) == m_ax # None

OnlyMaskAxis(m_ax, nm_ax) == m_ax # None /\ nm_ax = None

OnlyNonMaskAxis(m_ax, nm_ax) == m_ax = None /\ nm_ax # None

RankMismatchLess(a_nd, m_nd) == a_nd < m_nd

RankMismatch(a_nd, m_nd) == a_nd # m_nd

\* return tuple(mask_axis), tuple(non_mask_axis)
return_axes(ms, ns) == Return(<<tuple(ms), tuple(ns)>>)

\* non_mask_axis = set(range(a_ndim)) - mask_axis
from_mask_axis(ms, a_nd) == return_axes(ms, set_difference(set(range(a_nd)), ms))

\* mask_axis = set(range(a_ndim)) - non_mask_axis
from_non_mask_axis(ns, a_nd) == return_axes(set_difference(set(range(a_nd)), ns), ns)

process_mask_axis(a_nd, m_nd, m_ax, nm_ax) ==
    IF NeitherGiven(m_ax, nm_ax) THEN
        IF RankMismatch(a_nd, m_nd) THEN Raise(ValueError, MsgSameDim)
        ELSE return_axes(set(range(a_nd)), set(<<>>))
    ELSE IF OnlyMaskAxis(m_ax, nm_ax) THEN
        IF Len(as_list(m_ax)) # m_nd THEN Raise(ValueError, MsgMaskAxisLen)
        ELSE from_mask_axis(set(normalize(as_list(m_ax), a_nd)), a_nd)
    ELSE IF OnlyNonMaskAxis(m_ax, nm_ax) THEN
        IF Len(as_list(nm_ax)) # a_nd - m_nd THEN Raise(ValueError, MsgNonMaskAxisLen)
        ELSE from_non_mask_axis(set(normalize(as_list(nm_ax), a_nd)), a_nd)
    ELSE Raise(ValueError, MsgOnlyOne)

----------------------------------------------------------------------------
(* Arrays: [shape |-> tuple of sizes, data |-> the elements in row-major   *)
(* order].  The engine primitives this file calls are modelled by what     *)
(* they do to shapes and elements.                                         *)

IndexError == "IndexError"
TypeError == "TypeError"
MsgTupleIndex == "tuple index out of range"
MsgShapeMismatch == "shape mismatch: objects cannot be broadcast to a single shape"
MsgNotBroadcastable == "Mask shape must broadcastable to array along target axis"
MsgAxisOutOfBounds == "axis is out of bounds for array of dimension"
MsgRepeatedAxis == "repeated axis in expand_dims"
MsgIncompatible == "Incompatible shapes for broadcasting"

ndim(x) == Len(x.shape)

size(x) == prod(x.shape)

\* t[d] for a Python tuple t: negative d counts from the end
InTupleRange(t, d) == -Len(t) <= d /\ d < Len(t)

tuple_get(t, d) == IF d >= 0 THEN t[d + 1] ELSE t[d + Len(t) + 1]

\* t[lo:hi] for 0 <= lo, hi already clamped to 0..len(t)
RECURSIVE slice(_, _, _)
slice(t, lo, hi) == IF lo >= hi THEN <<>> ELSE <<t[lo + 1]>> \o slice(t, lo + 1, hi)

RECURSIVE ones(_)
ones(n) == IF n <= 0 THEN <<>> ELSE <<1>> \o ones(n - 1)

\* np.broadcast_shapes(s, t): the shapes aligned from the right
RECURSIVE broadcast_pairs(_, _)
broadcast_pairs(s, t) ==
    IF s = <<>> THEN Return(<<>>)
    ELSE LET x == s[Len(s)]
             y == t[Len(t)]
             rest == broadcast_pairs(SubSeq(s, 1, Len(s) - 1), SubSeq(t, 1, Len(t) - 1))
         IN  IF IsRaise(rest) THEN rest
             ELSE IF x = y \/ y = 1 THEN Return(Append(rest.val, x))
             ELSE IF x = 1 THEN Return(Append(rest.val, y))
             ELSE Raise(ValueError, MsgShapeMismatch)

broadcast_shapes(s, t) ==
    LET n == IF Len(s) >= Len(t) THEN Len(s) ELSE Len(t)
    IN  broadcast_pairs(ones(n - Len(s)) \o s, ones(n - Len(t)) \o t)

\* [a.shape[d] for d in mask_axis]: Return(shape) or the IndexError of a.shape[d]
RECURSIVE shape_at(_, _)
shape_at(shape, axes) ==
    IF axes = <<>> THEN Return(<<>>)
    ELSE IF ~InTupleRange(shape, Head(axes)) THEN Raise(IndexError, MsgTupleIndex)
    ELSE LET rest == shape_at(shape, Tail(axes))
         IN  IF IsRaise(rest) THEN rest
             ELSE Return(<<tuple_get(shape, Head(axes))>> \o rest.val)

BroadcastEqualsTarget(bshape, target) == bshape = target

\* the try block of is_maskable / process_mask: Return(maskable), or the
\* IndexError that `except ValueError` does not catch
\* b is the outcome of np.broadcast_shapes: its ValueError is caught
broadcast_matches(b, target_a_shape) ==
    IF IsRaise(b) THEN Return(FALSE)
    ELSE Return(BroadcastEqualsTarget(b.val, target_a_shape))

maskable_to(m, target_a_shape) ==
    IF IsRaise(target_a_shape) THEN target_a_shape
    ELSE broadcast_matches(broadcast_shapes(m.shape, target_a_shape.val),
                           target_a_shape.val)

check_maskable(x, m, m_axes) == maskable_to(m, shape_at(x.shape, m_axes))

\* axes is the outcome of process_mask_axis, called outside the try block
maskable_on(x, m, axes) ==
    IF IsRaise(axes) THEN axes ELSE check_maskable(x, m, axes.val[1])

is_maskable(x, m, m_ax, nm_ax) ==
    maskable_on(x, m, process_mask_axis(ndim(x), ndim(m), m_ax, nm_ax))

\* canonicalize_axis for every axis of expand_dims
RECURSIVE canonicalize(_, _)
canonicalize(axes, nd) ==
    IF axes = <<>> THEN <<>>
    ELSE <<IF Head(axes) >= 0 THEN Head(axes) ELSE Head(axes) + nd>>
         \o canonicalize(Tail(axes), nd)

RECURSIVE expanded_shape(_, _, _, _)
expanded_shape(shape, dims, pos, nd) ==
    IF pos = nd THEN <<>>
    ELSE IF pos \in dims THEN <<1>> \o expanded_shape(shape, dims, pos + 1, nd)
    ELSE <<Head(shape)>> \o expanded_shape(Tail(shape), dims, pos + 1, nd)

AsSet(t) == {t[i] : i \in DOMAIN t}

\* jnp.expand_dims(x, axis=axes) for a tuple of axes
expand_dims(x, axes) ==
    LET ndim_out == ndim(x) + Len(axes)
    IN  IF \E i \in DOMAIN axes : ~(-ndim_out <= axes[i] /\ axes[i] < ndim_out)
        THEN Raise(ValueError, MsgAxisOutOfBounds)
        ELSE LET dims == canonicalize(axes, ndim_out)
             IN  IF Cardinality(AsSet(dims)) # Len(dims)
                 THEN Raise(ValueError, MsgRepeatedAxis)
                 ELSE Return([shape |-> expanded_shape(x.shape, AsSet(dims), 0, ndim_out),
                              data  |-> x.data])

\* if not maskable: raise; else jnp.expand_dims(mask, axis=non_mask_axis)
align(m, maskable, n_axes) ==
    IF IsRaise(maskable) THEN maskable
    ELSE IF ~maskable.val THEN Raise(ValueError, MsgNotBroadcastable)
    ELSE expand_dims(m, n_axes)

process_mask_on(x, m, axes) ==
    IF IsRaise(axes) THEN axes
    ELSE align(m, check_maskable(x, m, axes.val[1]), axes.val[2])

process_mask(x, m, m_ax, nm_ax) ==
    process_mask_on(x, m, process_mask_axis(ndim(x), ndim(m), m_ax, nm_ax))

\* the multi-index of flat position k (0-based) in an array of this shape
RECURSIVE unravel(_, _)
unravel(k, shape) ==
    IF shape = <<>> THEN <<>>
    ELSE LET inner == prod(Tail(shape))
         IN  <<k \div inner>> \o unravel(k % inner, Tail(shape))

\* the flat position of a multi-index
RECURSIVE ravel(_, _)
ravel(idx, shape) ==
    IF shape = <<>> THEN 0
    ELSE Head(idx) * prod(Tail(shape)) + ravel(Tail(idx), Tail(shape))

\* the operand's own multi-index under broadcasting to an index of the result
RECURSIVE broadcast_index(_, _)
broadcast_index(idx, shape) ==
    IF shape = <<>> THEN <<>>
    ELSE LET mine == SubSeq(idx, Len(idx) - Len(shape) + 1, Len(idx))
         IN  <<IF Head(shape) = 1 THEN 0 ELSE Head(mine)>>
             \o broadcast_index(Tail(mine), Tail(shape))

element(x, idx) == x.data[ravel(broadcast_index(idx, x.shape), x.shape) + 1]

RECURSIVE where_data(_, _, _, _, _)
where_data(cond, x, fill, shape, k) ==
    IF k = prod(shape) THEN <<>>
    ELSE LET idx == unravel(k, shape)
         IN  <<IF element(cond, idx) THEN element(x, idx) ELSE fill>>
             \o where_data(cond, x, fill, shape, k + 1)

\* jnp.where(cond, x, fill) for a scalar fill
where(cond, x, fill) ==
    LET b == broadcast_shapes(cond.shape, x.shape)
    IN  IF IsRaise(b) THEN Raise(ValueError, MsgIncompatible)
        ELSE Return([shape |-> b.val, data |-> where_data(cond, x, fill, b.val, 0)])

fill_where(pm, x, fill) == IF IsRaise(pm) THEN pm ELSE where(pm.val, x, fill)

masked_fill(x, m, m_ax, nm_ax, fill) ==
    fill_where(process_mask(x, m, m_ax, nm_ax), x, fill)

\* masked_sum / masked_mean / masked_min / masked_max hand the aligned mask
\* to the engine's reduction, which stays uninterpreted: the returned value
\* names the primitive and the arguments it is called with.
reduce_where(op, initial, x, pm) ==
    IF IsRaise(pm) THEN pm
    ELSE Return([primitive |-> op, array |-> x, axis |-> None, keepdims |-> FALSE,
                 where_mask |-> pm.val, initial |-> initial])

masked_reduce(op, initial, x, m, m_ax, nm_ax) ==
    reduce_where(op, initial, x, process_mask(x, m, m_ax, nm_ax))

masked_sum(x, m, m_ax, nm_ax) == masked_reduce("jnp.sum", "unset", x, m, m_ax, nm_ax)

masked_mean(x, m, m_ax, nm_ax) == masked_reduce("jnp.mean", "unset", x, m, m_ax, nm_ax)

masked_min(x, m, m_ax, nm_ax) == masked_reduce("jnp.min", "jnp.inf", x, m, m_ax, nm_ax)

masked_max(x, m, m_ax, nm_ax) == masked_reduce("jnp.max", "-jnp.inf", x, m, m_ax, nm_ax)

----------------------------------------------------------------------------
(* flatten / unflatten                                                     *)

MsgReshape == "cannot reshape array"
MsgSizeMismatch == "Size mismatch"
MsgNoneCompare == "'>=' not supported between instances of 'NoneType' and 'int'"
MsgNotInteger == "object cannot be interpreted as an integer"

\* a bound of a Python slice over a tuple of length n: None is `dflt`, a
\* negative bound counts from the end, and the result is clamped to 0..n
slice_bound(b, n, dflt) ==
    IF b = None THEN dflt
    ELSE IF b.int < 0 THEN (IF b.int + n < 0 THEN 0 ELSE b.int + n)
    ELSE IF b.int > n THEN n ELSE b.int

\* t[lo:hi] for Python values lo, hi (None or PyInt)
py_slice(t, lo, hi) ==
    slice(t, slice_bound(lo, Len(t), 0), slice_bound(hi, Len(t), Len(t)))

\* jnp.reshape(x, shape): the elements keep their row-major order
reshape(x, shape) ==
    IF prod(shape) # size(x) THEN Raise(TypeError, MsgReshape)
    ELSE Return([shape |-> shape, data |-> x.data])

\* x if x >= 0 else x + nd
wrap(x, nd) == IF x >= 0 THEN x ELSE x + nd

flatten_start(x, st) == IF st = None THEN 0 ELSE wrap(st.int, ndim(x))

flatten_stop(x, sp) == IF sp = None THEN ndim(x) ELSE wrap(sp.int, ndim(x))

flatten(x, st, sp) ==
    LET s0 == PyInt(flatten_start(x, st))
        s1 == PyInt(flatten_stop(x, sp))
        original_shape == py_slice(x.shape, s0, s1)
        flatten_size == prod(original_shape)
        meta == <<original_shape, flatten_size>>
        flat == reshape(x, py_slice(x.shape, None, s0) \o <<flatten_size>>
                           \o py_slice(x.shape, s1, None))
    IN  IF IsRaise(flat) THEN flat ELSE Return(<<flat.val, meta>>)

UnflattenedShapeKeepsAxis(shape, ax, original_shape) ==
    py_slice(shape, None, PyInt(ax)) \o original_shape \o py_slice(shape, PyInt(ax), None)

\* (*a.shape[:axis], *original_shape, *a.shape[axis+1:])
unflattened_shape(shape, ax, original_shape) ==
    py_slice(shape, None, PyInt(ax)) \o original_shape \o py_slice(shape, PyInt(ax + 1), None)

unflatten(x, meta, ax) ==
    IF ax = None THEN Raise(TypeError, MsgNoneCompare)
    ELSE LET ax0 == wrap(ax.int, ndim(x))
             original_shape == meta[1]
             flatten_size == meta[2]
         IN  IF ~InTupleRange(x.shape, ax0) THEN Raise(IndexError, MsgTupleIndex)
             ELSE IF tuple_get(x.shape, ax0) # flatten_size
             THEN Raise(ValueError, MsgSizeMismatch)
             ELSE reshape(x, unflattened_shape(x.shape, ax0, original_shape))

----------------------------------------------------------------------------
(* logmeanexp                                                              *)

MsgMathDomain == "math domain error"

\* jax.nn.logsumexp(a, axis=axis, ...) - math.log(divider): the engine's
\* log-sum-exp stays uninterpreted; the value names its arguments and the
\* divider whose logarithm is subtracted
logmeanexp(x, ax) ==
    LET divider ==
            IF ax = None THEN Return(size(x))
            ELSE IF IsInt(ax) THEN
                IF InTupleRange(x.shape, ax.int) THEN Return(tuple_get(x.shape, ax.int))
                ELSE Raise(IndexError, MsgTupleIndex)
            ELSE Raise(TypeError, MsgNotInteger)
    IN  IF IsRaise(divider) THEN divider
        ELSE IF divider.val = 0 THEN Raise(ValueError, MsgMathDomain)
        ELSE Return([primitive |-> "jax.nn.logsumexp", array |-> x, axis |-> ax,
                     divider |-> divider.val])

----------------------------------------------------------------------------
(* Inputs.                                                                 *)

AxisVals(nd) == (-(nd + 1))..nd

AxisArgs(nd, n) ==
    {PyInt(i) : i \in AxisVals(nd)} \cup {PyTuple(s) : s \in SeqsUpTo(AxisVals(nd), n)}

Fns == {"process_mask_axis", "is_maskable", "process_mask", "masked_fill",
        "masked_sum", "masked_mean", "masked_min", "masked_max",
        "flatten", "unflatten", "logmeanexp"}

NoCalls == [f \in Fns |-> NotCalled]

\* process_mask_axis(a_ndim, mask_ndim, mask_axis, non_mask_axis) on ranks
\* and any axis arguments: in range, negative, repeated or out of range.
InitAxis ==
    /\ pc = "process_mask_axis"
    /\ a_ndim \in 0..MaxNdim
    /\ mask_ndim \in 0..MaxNdim
    /\ \/ /\ mask_axis \in AxisArgs(a_ndim, MaxAxes) \cup {None}
          /\ non_mask_axis = None
       \/ /\ mask_axis = None
          /\ non_mask_axis \in AxisArgs(a_ndim, MaxAxes)
       \/ /\ mask_axis \in AxisArgs(a_ndim, MaxBothAxes)
          /\ non_mask_axis \in AxisArgs(a_ndim, MaxBothAxes)
    /\ a = None /\ mask = None /\ fill_value = None
    /\ start = None /\ stop = None /\ axis = None
    /\ ret = NoCalls

\* arrays: jnp.arange(1, n + 1).reshape(shape)
RECURSIVE arange(_)
arange(n) == IF n <= 0 THEN <<>> ELSE Append(arange(n - 1), n)

Shapes(maxnd, dims) == SeqsUpTo(dims, maxnd)

ArangeArray(shape) == [shape |-> shape, data |-> arange(prod(shape))]

\* boolean masks of a shape: all true, all false, alternating, one-hot
RECURSIVE pattern(_, _)
pattern(n, kind) ==
    IF n <= 0 THEN <<>>
    ELSE Append(pattern(n - 1, kind),
                CASE kind = "ones"  -> TRUE
                  [] kind = "zeros" -> FALSE
                  [] kind = "even"  -> n % 2 = 0
                  [] kind = "odd"   -> n % 2 = 1
                  [] kind = "first" -> n = 1
                  [] OTHER          -> n # 1)

MaskKinds == {"ones", "zeros", "even", "odd", "first", "rest"}

Masks(shape) == {[shape |-> shape, data |-> pattern(prod(shape), k)] : k \in MaskKinds}

OnesMask(shape) == [shape |-> shape, data |-> pattern(prod(shape), "ones")]

\* is_maskable / process_mask / masked_fill on arrays of every small shape
InitMask ==
    /\ pc = "process_mask_axis"
    /\ a \in {ArangeArray(sh) : sh \in Shapes(MaxNdim, 1..MaxDim)}
    /\ mask \in UNION {Masks(sh) : sh \in Shapes(MaxNdim, 1..MaxDim)}
    /\ a_ndim = ndim(a)
    /\ mask_ndim = ndim(mask)
    /\ \/ /\ mask_axis \in AxisArgs(a_ndim, MaxAxes) \cup {None}
          /\ non_mask_axis = None
       \/ /\ mask_axis = None
          /\ non_mask_axis \in AxisArgs(a_ndim, MaxAxes)
       \/ /\ mask_axis \in AxisArgs(a_ndim, MaxBothAxes)
          /\ non_mask_axis \in AxisArgs(a_ndim, MaxBothAxes)
    /\ fill_value \in {0, -1}
    /\ start = None /\ stop = None /\ axis = None
    /\ ret = NoCalls

\* every masked operation on arrays of each rank, with any pair of axis
\* arguments: neither, either or both given
InitBoth ==
    /\ pc = "process_mask_axis"
    /\ a \in {ArangeArray(sh) : sh \in Shapes(MaxNdim, {MaxDim})}
    /\ mask \in {OnesMask(sh) : sh \in Shapes(MaxNdim, {MaxDim})}
    /\ a_ndim = ndim(a)
    /\ mask_ndim = ndim(mask)
    /\ mask_axis \in AxisArgs(a_ndim, MaxBothAxes) \cup {None}
    /\ non_mask_axis \in AxisArgs(a_ndim, MaxBothAxes) \cup {None}
    /\ fill_value = 0
    /\ start = None /\ stop = None /\ axis = None
    /\ ret = NoCalls

Distinct(t) == Cardinality(AsSet(t)) = Len(t)

ValidAxisArgs(nd, n) ==
    {PyInt(i) : i \in 0..(nd - 1)}
    \cup {PyTuple(t) : t \in {u \in SeqsUpTo(0..(nd - 1), n) : Distinct(u)}}

\* process_mask_axis on arrays of rank up to MaxWideNdim: with no axis
\* argument and any mask rank, or with one axis argument that is legal (in
\* range, non-negative, not repeated, of the length the mask rank requires)
InitWideAxis ==
    /\ pc = "process_mask_axis"
    /\ a_ndim \in 0..MaxWideNdim
    /\ \/ /\ mask_axis = None
          /\ non_mask_axis = None
          /\ mask_ndim \in 0..MaxWideNdim
       \/ /\ mask_axis \in ValidAxisArgs(a_ndim, MaxAxes)
          /\ non_mask_axis = None
          /\ mask_ndim = Len(as_list(mask_axis))
       \/ /\ mask_axis = None
          /\ non_mask_axis \in ValidAxisArgs(a_ndim, MaxAxes)
          /\ mask_ndim = a_ndim - Len(as_list(non_mask_axis))
    /\ a = None /\ mask = None /\ fill_value = None
    /\ start = None /\ stop = None /\ axis = None
    /\ ret = NoCalls

Record(f, outcome, next) ==
    /\ pc = f
    /\ ret' = [ret EXCEPT ![f] = outcome]
    /\ pc' = next
    /\ UNCHANGED <<a_ndim, mask_ndim, a, mask, mask_axis, non_mask_axis,
                   fill_value, start, stop, axis>>

CallProcessMaskAxis ==
    Record("process_mask_axis",
           process_mask_axis(a_ndim, mask_ndim, mask_axis, non_mask_axis),
           "is_maskable")

CallIsMaskable ==
    Record("is_maskable", is_maskable(a, mask, mask_axis, non_mask_axis), "process_mask")

CallProcessMask ==
    Record("process_mask", process_mask(a, mask, mask_axis, non_mask_axis), "masked_fill")

CallMaskedFill ==
    Record("masked_fill", masked_fill(a, mask, mask_axis, non_mask_axis, fill_value),
           "masked_sum")

CallMaskedSum ==
    Record("masked_sum", masked_sum(a, mask, mask_axis, non_mask_axis), "masked_mean")

CallMaskedMean ==
    Record("masked_mean", masked_mean(a, mask, mask_axis, non_mask_axis), "masked_min")

CallMaskedMin ==
    Record("masked_min", masked_min(a, mask, mask_axis, non_mask_axis), "masked_max")

CallMaskedMax ==
    Record("masked_max", masked_max(a, mask, mask_axis, non_mask_axis), "done")

NextAxis == CallProcessMaskAxis

NextMask ==
    \/ CallProcessMaskAxis
    \/ CallIsMaskable
    \/ CallProcessMask
    \/ CallMaskedFill

NextBoth ==
    \/ CallProcessMaskAxis
    \/ CallIsMaskable
    \/ CallProcessMask
    \/ CallMaskedFill
    \/ CallMaskedSum
    \/ CallMaskedMean
    \/ CallMaskedMin
    \/ CallMaskedMax

\* unflatten(flatten(a, start, stop)[0], flatten(a, start, stop)[1], start)
InitFlat ==
    /\ pc = "flatten"
    /\ a \in {ArangeArray(sh) : sh \in Shapes(MaxFlatNdim, 0..MaxDim)}
    /\ start \in {PyInt(i) : i \in AxisVals(ndim(a))} \cup {None}
    /\ stop \in {PyInt(i) : i \in AxisVals(ndim(a))} \cup {None}
    /\ a_ndim = ndim(a)
    /\ mask = None /\ mask_ndim = None /\ mask_axis = None /\ non_mask_axis = None
    /\ fill_value = None /\ axis = None
    /\ ret = NoCalls

CallFlatten == Record("flatten", flatten(a, start, stop), "unflatten")

CallUnflatten ==
    /\ IsReturn(ret["flatten"])
    /\ Record("unflatten",
              unflatten(ret["flatten"].val[1], ret["flatten"].val[2], start),
              "done")

NextFlat == CallFlatten \/ CallUnflatten

InitLog ==
    /\ pc = "logmeanexp"
    /\ a \in {ArangeArray(sh) : sh \in Shapes(MaxNdim, 1..MaxDim)}
    /\ axis \in AxisArgs(ndim(a), MaxAxes) \cup {None}
    /\ a_ndim = ndim(a)
    /\ mask = None /\ mask_ndim = None /\ mask_axis = None /\ non_mask_axis = None
    /\ fill_value = None /\ start = None /\ stop = None
    /\ ret = NoCalls

CallLogmeanexp == Record("logmeanexp", logmeanexp(a, axis), "done")

NextLog == CallLogmeanexp

SpecAxis == InitAxis /\ [][NextAxis]_vars

SpecWideAxis == InitWideAxis /\ [][NextAxis]_vars

SpecMask == InitMask /\ [][NextMask]_vars

SpecBoth == InitBoth /\ [][NextBoth]_vars

SpecFlat == InitFlat /\ [][NextFlat]_vars

SpecLog == InitLog /\ [][NextLog]_vars

----------------------------------------------------------------------------
(* Properties.                                                             *)

RECURSIVE sorted(_)
sorted(S) == IF S = {} THEN <<>> ELSE <<Min(S)>> \o sorted(S \ {Min(S)})

Ascending(t) == \A i \in 1..(Len(t) - 1) : t[i] < t[i + 1]

Resolved == ret["process_mask_axis"]

\* the resolved mask axes in ascending order
MaskAxes == sorted(AsSet(Resolved.val[1]))

\* a's sizes at the resolved mask axes, in ascending axis order
TargetShape == shape_at(a.shape, MaskAxes)

\* C1: whenever process_mask_axis returns, the returned mask_axis and
\* non_mask_axis are disjoint, together are exactly {0 .. a_ndim-1}, and
\* mask_axis has mask_ndim entries.
C1_ReturnedAxesPartition ==
    IsReturn(Resolved) =>
        LET m == Resolved.val[1]
            n == Resolved.val[2]
        IN  /\ AsSet(m) \cup AsSet(n) = 0..(a_ndim - 1)
            /\ AsSet(m) \cap AsSet(n) = {}
            /\ Len(m) = mask_ndim

\* C2: when is_maskable returns a boolean, it is true exactly when
\* process_mask with the same arguments returns a mask instead of raising.
C2_PredicateMatchesAction ==
    (IsReturn(ret["is_maskable"]) /\ Called(ret["process_mask"])) =>
        (ret["is_maskable"].val <=> IsReturn(ret["process_mask"]))

\* every mask dimension i is 1 or equals target_shape[i]
MaskFitsTarget ==
    /\ IsReturn(TargetShape)
    /\ \A i \in DOMAIN mask.shape :
          \/ mask.shape[i] = 1
          \/ i <= Len(TargetShape.val) /\ mask.shape[i] = TargetShape.val[i]

\* C3: for axes that resolve, is_maskable returns true exactly when every
\* mask dimension equals the target size or is 1; otherwise it returns false
\* without raising and process_mask raises.
C3_MaskableIffFitsTarget ==
    (IsReturn(Resolved) /\ Called(ret["is_maskable"]) /\ Called(ret["process_mask"])) =>
        /\ ret["is_maskable"] = Return(MaskFitsTarget)
        /\ MaskFitsTarget <=> IsReturn(ret["process_mask"])

\* C4: the aligned mask process_mask returns has a's rank, size 1 at every
\* resolved non-mask axis, and the mask's own dimensions, in order, at the
\* resolved mask axes.
C4_AlignedMaskShape ==
    IsReturn(ret["process_mask"]) =>
        LET aligned == ret["process_mask"].val.shape
            n == Resolved.val[2]
        IN  /\ Len(aligned) = ndim(a)
            /\ \A i \in DOMAIN n :
                  InTupleRange(aligned, n[i]) /\ tuple_get(aligned, n[i]) = 1
            /\ shape_at(aligned, MaskAxes) = Return(mask.shape)

\* every mask dimension larger than 1 has a mask axis of a to select on
MaskAxesSelect ==
    \A i \in DOMAIN mask.shape :
        \/ mask.shape[i] = 1
        \/ i <= Len(MaskAxes) /\ MaskAxes[i] \in 0..(ndim(a) - 1)

\* the mask entry an index of a selects: its coordinates on the mask axes,
\* coordinate 0 on a mask dimension of size 1
MaskEntry(idx) ==
    mask.data[ravel([i \in DOMAIN mask.shape |->
                        IF mask.shape[i] = 1 THEN 0 ELSE idx[MaskAxes[i] + 1]],
                    mask.shape) + 1]

\* C5: on a maskable input masked_fill returns an array of a's shape that
\* holds a's element where the selected mask entry is true and fill_value
\* elsewhere.
C5_FillKeepsMaskedElements ==
    (ret["is_maskable"] = Return(TRUE) /\ Called(ret["masked_fill"])) =>
        /\ IsReturn(ret["masked_fill"])
        /\ ret["masked_fill"].val.shape = a.shape
        /\ MaskAxesSelect
        /\ \A k \in 0..(size(a) - 1) :
              ret["masked_fill"].val.data[k + 1] =
                  IF MaskEntry(unravel(k, a.shape)) THEN a.data[k + 1] ELSE fill_value

\* C6: with neither axis argument given, process_mask_axis returns
\* ((0, .., a_ndim-1), ()) when a_ndim = mask_ndim and raises otherwise.
C6_NoAxisNeedsEqualRank ==
    (mask_axis = None /\ non_mask_axis = None /\ Called(Resolved)) =>
        IF a_ndim = mask_ndim
        THEN Resolved = Return(<<range(a_ndim), <<>>>>)
        ELSE Resolved = Raise(ValueError, MsgSameDim)

C6_Witness ==
    /\ mask_axis = None /\ non_mask_axis = None
    /\ a_ndim = mask_ndim /\ a_ndim = MaxWideNdim
    /\ Resolved = Return(<<range(a_ndim), <<>>>>)

MaskedFns == {"process_mask_axis", "is_maskable", "process_mask", "masked_fill",
              "masked_sum", "masked_mean", "masked_min", "masked_max"}

\* C7: with both mask_axis and non_mask_axis given, process_mask_axis raises
\* its "only one" error, and is_maskable, process_mask and every masked_*
\* operation raise that same error.
C7_BothGivenAlwaysRaises ==
    (mask_axis # None /\ non_mask_axis # None) =>
        \A f \in MaskedFns : Called(ret[f]) => ret[f] = Raise(ValueError, MsgOnlyOne)

C7_Witness ==
    /\ pc = "done"
    /\ mask_axis = PyInt(0) /\ non_mask_axis = PyTuple(<<>>)
    /\ \A f \in MaskedFns : ret[f] = Raise(ValueError, MsgOnlyOne)

\* start is an integer, stop an integer or unspecified, and the normalized
\* values satisfy 0 <= start <= stop <= rank(a)
ValidRange ==
    /\ IsInt(start)
    /\ 0 <= flatten_start(a, start)
    /\ flatten_start(a, start) <= flatten_stop(a, stop)
    /\ flatten_stop(a, stop) <= ndim(a)

RoundTrips ==
    /\ pc # "flatten" => IsReturn(ret["flatten"])
    /\ pc = "done" => ret["unflatten"] = Return(a)

\* C8 as stated: for every valid (start, stop), negative start included,
\* unflatten(flatten(a, start, stop)[0], flatten(a, start, stop)[1], start)
\* succeeds and returns a.
C8_RoundTripAnyStart == ValidRange => RoundTrips

\* C8 amended: the round trip succeeds and returns a for every valid
\* (start, stop) whose start is non-negative, and for a negative start when
\* the range holds exactly one axis.
C8_RoundTripNonNegativeStart ==
    (/\ ValidRange
     /\ \/ start.int >= 0
        \/ flatten_stop(a, stop) - flatten_start(a, start) = 1) => RoundTrips

C8_Witness ==
    /\ pc = "done"
    /\ ValidRange
    /\ start.int >= 1
    /\ stop = None
    /\ flatten_stop(a, stop) - flatten_start(a, start) >= 2
    /\ size(a) >= 4
    /\ ret["unflatten"] = Return(a)

\* C9: both tuples process_mask_axis returns are in ascending order, and
\* listing the same axes in another order returns the same result.
C9_AxesAscending ==
    IsReturn(Resolved) =>
        /\ Ascending(Resolved.val[1])
        /\ Ascending(Resolved.val[2])
        /\ (mask_axis # None /\ IsTuple(mask_axis) /\ Len(mask_axis.seq) = 2) =>
              process_mask_axis(a_ndim, mask_ndim,
                                PyTuple(<<mask_axis.seq[2], mask_axis.seq[1]>>),
                                non_mask_axis) = Resolved

\* C10: logmeanexp returns a value whose divider is a.size for no axis,
\* a.shape[axis] for an integer axis, and returns a value as well when axis
\* is a sequence of axes.
C10_DividerPerAxisKind ==
    Called(ret["logmeanexp"]) =>
        /\ axis = None =>
              /\ IsReturn(ret["logmeanexp"])
              /\ ret["logmeanexp"].val.divider = size(a)
        /\ (axis # None /\ IsInt(axis) /\ InTupleRange(a.shape, axis.int)) =>
              /\ IsReturn(ret["logmeanexp"])
              /\ ret["logmeanexp"].val.divider = tuple_get(a.shape, axis.int)
        /\ (axis # None /\ IsTuple(axis) /\ Distinct(axis.seq)
            /\ \A i \in DOMAIN axis.seq : axis.seq[i] \in 0..(ndim(a) - 1)) =>
              IsReturn(ret["logmeanexp"])

====
